---- MODULE Spec2Model ----
(***************************************************************************)
(* A model of lumberjack's log ingest: the ingest driver (_parse), the     *)
(* file iterator (ParserIter), the file parser (Parser::parse_file) with   *)
(* its parallel per-line phase and its day-rollover reconciliation, the    *)
(* line parser (Parser::parse_line) and the generated event dispatch       *)
(* (EventBuilder::event_from_line), the binary log decoder (read_lines,    *)
(* decode_lines, Decoder) and the format probe (patterns_for_file,         *)
(* pattern_for_version) with the dispatch on the probed version            *)
(* (parse_event).  Spec is a run over several files, SpecFile the parse of *)
(* one file, SpecDecode the reading of one file's bytes, SpecProbe the     *)
(* probe of one file against a catalog.                                    *)
(*                                                                         *)
(* Time is counted in clock ticks; a NaiveDateTime is a number of ticks,   *)
(* a NaiveTime a number of ticks below DayLen.  A log line is described by *)
(* what the platform's regexes find in it: whether the domain regex        *)
(* matches, the instant the line was logged at (NoTs when the timestamp    *)
(* regex or every timestamp format fails), what the level regex yields,    *)
(* the set of event keys whose regex matches the line, and the captures   *)
(* that are absent from the match or whose text does not parse.            *)
(***************************************************************************)
EXTENDS Integers, Sequences, FiniteSets, TLC

VARIABLES
    platform,     \* Parser.patterns.platform: full_timestamp, level regex
    n_files,      \* Parser.files.len()
    index,        \* ParserIter.index
    pc,           \* where the driver is
    cur,          \* the file parse_file is reading (what is on disk now)
    file,         \* the File header parse_file built
    results,      \* the collected Vec<LineResult> of the parallel phase
    completed,    \* the line tasks that have finished
    output,       \* the ParserOutput handed to the driver
    summary,      \* the counts of the per-file log::debug! summary
    file_err,     \* the error ParserIter::next logged, "none" if none
    store,        \* the committed rows of the output database
    tx,           \* the rows written by the open transaction
    total_files,  \* _parse's counters
    total_lines,
    err_count,    \* the aggregate count of non-expected line failures
    stream,       \* the bytes of the file read_lines is reading
    decoder,      \* the Decoder: position in the stream, header fields,
                  \* elapsed_ticks, tokens, objects
    dpc,          \* where read_lines is
    decoded,      \* the lines read so far
    decode_err,   \* the error read_lines returns, NoError if none
    catalog,      \* PATTERNS_MAP: the version ranges with their PatternSets
    probe_lines,  \* the lines of the file patterns_for_file scans
    probe,        \* where patterns_for_file is: PatternSet, line, platform
    probed,       \* what patterns_for_file returned, kind "none" before that
    dispatched    \* what parse_event did with the probed version and patterns

runVars == << platform, n_files, index, pc, cur, file, results, completed,
              output, summary, file_err, store, tx, total_files, total_lines,
              err_count >>

decVars == << stream, decoder, dpc, decoded, decode_err >>

probeVars == << catalog, probe_lines, probe, probed, dispatched >>

vars == << platform, n_files, index, pc, cur, file, results, completed, output,
           summary, file_err, store, tx, total_files, total_lines, err_count,
           stream, decoder, dpc, decoded, decode_err,
           catalog, probe_lines, probe, probed, dispatched >>

-----------------------------------------------------------------------------
(* Bounds of the model.                                                    *)

MaxFiles == 2
MaxLines == 2
MaxInstant == 3

(* One day (TimeDelta::days(1)) in clock ticks.                            *)
DayLen == 2

-----------------------------------------------------------------------------
(* Time.                                                                   *)

NoTs == -1

Instants == 0 .. MaxInstant

Date(t) == t \div DayLen

TimeOfDay(t) == t % DayLen

(* NaiveDate::and_time *)
AndTime(date, time) == date * DayLen + time

-----------------------------------------------------------------------------
(* The pattern catalog's events of the PatternSet in use, in the order the *)
(* YAML specification declares them.  rank is the position of the key in   *)
(* the lexicographic order of the keys.  captures holds the event's        *)
(* captures in the order the specification declares them, each with the    *)
(* rank of its name among the event's capture names.                       *)

NoCaptures == << >>

DeclaredEvents ==
    << [key |-> "repl_start",   rank |-> 3, ignore |-> FALSE,
        captures |-> NoCaptures],
       [key |-> "keepalive",    rank |-> 2, ignore |-> TRUE,
        captures |-> NoCaptures],
       [key |-> "db_saved_rev", rank |-> 1, ignore |-> FALSE,
        captures |-> << [key |-> "seq", rank |-> 3, type |-> "Int"],
                        [key |-> "doc", rank |-> 1, type |-> "String"],
                        [key |-> "rev", rank |-> 2,
                         type |-> "OptionalString"] >>] >>

EventKeys == {DeclaredEvents[i].key : i \in 1 .. Len(DeclaredEvents)}

(* build.rs keeps the events in a BTreeMap<String, Event>: iterating it    *)
(* visits the events by ascending key.                                     *)
RECURSIVE BTreeOrder(_)
BTreeOrder(evs) ==
    IF evs = {} THEN << >>
    ELSE LET least == CHOOSE e \in evs : \A o \in evs : e.rank <= o.rank
         IN  << least >> \o BTreeOrder(evs \ {least})

Events == BTreeOrder({DeclaredEvents[i] : i \in 1 .. Len(DeclaredEvents)})

(* Event.captures is a BTreeMap<String, CaptureType>: what deserializing    *)
(* the declared captures leaves is the captures by ascending name.          *)
captures_map(declared) ==
    BTreeOrder({declared[i] : i \in 1 .. Len(declared)})

Keys(entries) == [i \in 1 .. Len(entries) |-> entries[i].key]

(* An event without captures carries no data. *)
NoData == << >>

(* The capture names of an event as the specification lists them. *)
DeclaredCaptureNames(e) == Keys(e.captures)

(* The generated data struct has one field per entry of the captures map,  *)
(* in the map's order; serde_json::to_string writes an object with the     *)
(* struct's fields in the struct's order.                                  *)
DataFields(e) == Keys(captures_map(e.captures))

(* The capture types whose generated extraction ends in .unwrap(): Bool,   *)
(* HexInt and the `_` arm (Int, Float, String, Char).                      *)
UnwrappedTypes == {"Bool", "HexInt", "Int", "Float", "String", "Char"}

(* Whether extracting the captures of event e panics: a capture whose      *)
(* extraction is unwrapped is absent from the match or fails to parse.     *)
unwrap_panics(e, bad) ==
    \E c \in 1 .. Len(e.captures) :
        e.captures[c].type \in UnwrappedTypes /\ e.captures[c].key \in bad

(* A builder that takes an event marked ignore for a plain event.          *)
RECURSIVE EventFromLineNoIgnore(_, _, _)
EventFromLineNoIgnore(matches, bad, k) ==
    IF k > Len(Events) THEN [ok |-> FALSE, err |-> "UnknownEvent"]
    ELSE LET e == Events[k]
         IN  IF e.key \in matches
             THEN IF unwrap_panics(e, bad)
                  THEN [ok |-> FALSE, err |-> "panic"]
                  ELSE [ok |-> TRUE, event_type |-> e.key,
                        data |-> IF e.captures # NoCaptures
                                 THEN DataFields(e) ELSE NoData]
             ELSE EventFromLineNoIgnore(matches, bad, k + 1)

(* The generated EventBuilder::event_from_line: one `if` per event, in the *)
(* BTreeMap's order; the first event whose regex matches returns, or       *)
(* panics in an .unwrap() of its captures.                                 *)
RECURSIVE EventFromLineAt(_, _, _)
EventFromLineAt(matches, bad, k) ==
    IF k > Len(Events) THEN [ok |-> FALSE, err |-> "UnknownEvent"]
    ELSE LET e == Events[k]
         IN  IF e.key \in matches
             THEN IF e.ignore
                  THEN [ok |-> FALSE, err |-> "IgnoredEvent"]
                  ELSE IF unwrap_panics(e, bad)
                  THEN [ok |-> FALSE, err |-> "panic"]
                  ELSE [ok |-> TRUE, event_type |-> e.key,
                        data |-> IF e.captures # NoCaptures
                                 THEN DataFields(e) ELSE NoData]
             ELSE EventFromLineAt(matches, bad, k + 1)

event_from_line(matches, bad) == EventFromLineAt(matches, bad, 1)

-----------------------------------------------------------------------------
(* Line parsing.                                                           *)

(* parse_timestamp: the `ts` capture parsed with the platform's formats,   *)
(* a full date-time or a time of day.                                      *)
parse_timestamp(line, full_timestamp) ==
    IF line.ts = NoTs THEN [ok |-> FALSE, err |-> "NoTimestamp"]
    ELSE IF full_timestamp
         THEN [ok |-> TRUE, kind |-> "Full", ts |-> line.ts]
         ELSE [ok |-> TRUE, kind |-> "Partial", ts |-> TimeOfDay(line.ts)]

(* parse_level: the `level` capture mapped through level_names.            *)
parse_level(line) ==
    IF line.lvl \in {"NoLevel", "NoSuchLevel"}
    THEN [ok |-> FALSE, err |-> line.lvl]
    ELSE [ok |-> TRUE, level |-> line.lvl]

(* Parser::parse_line: domain, timestamp, level, event, in this order; the *)
(* first failure is the line's error.                                      *)
parse_line(line, line_num, f, base_date) ==
    IF ~line.dom THEN [ok |-> FALSE, err |-> "NoDomain"]
    ELSE LET t == parse_timestamp(line, platform.full_timestamp)
         IN  IF ~t.ok THEN [ok |-> FALSE, err |-> t.err]
             ELSE LET timestamp == IF t.kind = "Partial"
                                   THEN AndTime(base_date, t.ts)
                                   ELSE t.ts
                      lv == IF f.level # "None"
                            THEN [ok |-> TRUE, level |-> f.level]
                            ELSE parse_level(line)
                  IN  IF ~lv.ok THEN [ok |-> FALSE, err |-> lv.err]
                      ELSE LET e == event_from_line(line.ev, line.bad)
                           IN  IF ~e.ok THEN [ok |-> FALSE, err |-> e.err]
                               ELSE [ok |-> TRUE,
                                     line |-> [file_id    |-> f.id,
                                               line_num   |-> line_num,
                                               level      |-> lv.level,
                                               timestamp  |-> timestamp,
                                               event_type |-> e.event_type,
                                               event_data |-> e.data]]

-----------------------------------------------------------------------------
(* File parsing.                                                           *)

NoHeader == [id |-> -1, level |-> "None", timestamp |-> NoTs]

NoInput == [fault |-> "none", name_level |-> "None", name_ts |-> NoTs,
            created |-> NoTs, lines |-> << >>]

NoOutput == [file |-> NoHeader, lines |-> << >>]

NoSummary == [parsed |-> 0, skipped |-> 0, ignored |-> 0]

Pending == [tag |-> "Pending"]

(* A file header that gives every file the id 0.                           *)
file_header_one_id(f, idx) ==
    IF f.fault = "io" THEN [ok |-> FALSE, err |-> "Io"]
    ELSE IF f.fault = "badname" THEN [ok |-> FALSE, err |-> "InvalidFilename"]
    ELSE IF f.name_level = "None" /\ ~platform.level_regex
         THEN [ok |-> FALSE, err |-> "CannotParse"]
    ELSE LET timestamp ==
                 IF f.name_ts # NoTs THEN [ok |-> TRUE, ts |-> f.name_ts]
                 ELSE IF platform.full_timestamp
                      THEN parse_timestamp(f.lines[1], platform.full_timestamp)
                      ELSE IF f.created = NoTs
                           THEN [ok |-> FALSE, err |-> "Io"]
                           ELSE [ok |-> TRUE, ts |-> f.created]
         IN  IF ~timestamp.ok THEN [ok |-> FALSE, err |-> timestamp.err]
             ELSE [ok |-> TRUE,
                   file |-> [id |-> 0, level |-> f.name_level,
                             timestamp |-> timestamp.ts]]

(* The head of Parser::parse_file: read the lines, recover the file's      *)
(* level and timestamp.  f.fault = "io" is a file read_lines cannot read   *)
(* or decode, "badname" a file stem that is not UTF-8; created = NoTs is a *)
(* file system that reports no creation time.                              *)
file_header(f, idx) ==
    IF f.fault = "io" THEN [ok |-> FALSE, err |-> "Io"]
    ELSE IF f.fault = "badname" THEN [ok |-> FALSE, err |-> "InvalidFilename"]
    ELSE IF f.name_level = "None" /\ ~platform.level_regex
         THEN [ok |-> FALSE, err |-> "CannotParse"]
    ELSE LET timestamp ==
                 IF f.name_ts # NoTs THEN [ok |-> TRUE, ts |-> f.name_ts]
                 ELSE IF platform.full_timestamp
                      THEN parse_timestamp(f.lines[1], platform.full_timestamp)
                      ELSE IF f.created = NoTs
                           THEN [ok |-> FALSE, err |-> "Io"]
                           ELSE [ok |-> TRUE, ts |-> f.created]
         IN  IF ~timestamp.ok THEN [ok |-> FALSE, err |-> timestamp.err]
             ELSE [ok |-> TRUE,
                   file |-> [id |-> idx, level |-> f.name_level,
                             timestamp |-> timestamp.ts]]

(* The closure of the parallel map: line i (counted from 0) of the file.   *)
line_task(f, input, i) ==
    LET res == parse_line(input.lines[i + 1], i, f, Date(f.timestamp))
    IN  IF ~res.ok THEN [tag |-> "Err", err |-> res.err]
        ELSE IF platform.full_timestamp THEN [tag |-> "Ok", line |-> res.line]
        ELSE IF res.line.timestamp < f.timestamp
             THEN [tag |-> "Rollover", line |-> res.line]
             ELSE [tag |-> "Ok", line |-> res.line]

(* A collect that pushes the results in the order the tasks finish.        *)
SlotByCompletion(i, done) == Cardinality(done) + 1

(* collect() of an indexed parallel iterator writes the result of item i   *)
(* at position i, whichever task finishes first.                           *)
Slot(i, done) == i + 1

(* partition_map keeps the order of the items within each side.            *)
LinesTagged(rs, tag) ==
    LET sel == SelectSeq(rs, LAMBDA r : r.tag = tag)
    IN  [k \in 1 .. Len(sel) |-> sel[k].line]

ErrResults(rs) ==
    LET sel == SelectSeq(rs, LAMBDA r : r.tag = "Err")
    IN  [k \in 1 .. Len(sel) |-> sel[k].err]

(* par_sort_unstable_by_key(|line| line.line_num) *)
RECURSIVE SortByLineNum(_)
SortByLineNum(ls) ==
    IF ls = << >> THEN << >>
    ELSE LET k == CHOOSE k \in 1 .. Len(ls) :
                      \A j \in 1 .. Len(ls) : ls[k].line_num <= ls[j].line_num
             rest == [j \in 1 .. Len(ls) - 1 |-> IF j < k THEN ls[j] ELSE ls[j + 1]]
         IN  << ls[k] >> \o SortByLineNum(rest)

(* A rollover loop that counts the day but leaves the line on its date.    *)
RECURSIVE RolloverNoCarry(_, _, _)
RolloverNoCarry(ls, additional_days, file_ts) ==
    IF ls = << >> THEN << >>
    ELSE LET t1 == Head(ls).timestamp + additional_days
             days == IF t1 < file_ts THEN additional_days + DayLen
                     ELSE additional_days
         IN  << [Head(ls) EXCEPT !.timestamp = t1] >>
                 \o RolloverNoCarry(Tail(ls), days, file_ts)

(* A rollover loop that compares the time the line carries, without the    *)
(* days accumulated so far, against the file's timestamp.                  *)
RECURSIVE RolloverUnadjusted(_, _, _)
RolloverUnadjusted(ls, additional_days, file_ts) ==
    IF ls = << >> THEN << >>
    ELSE LET before == Head(ls).timestamp < file_ts
             days == IF before THEN additional_days + DayLen ELSE additional_days
         IN  << [Head(ls) EXCEPT !.timestamp = Head(ls).timestamp + days] >>
                 \o RolloverUnadjusted(Tail(ls), days, file_ts)

(* The rollover loop: every candidate gets the days accumulated so far; a  *)
(* candidate still before the file's timestamp adds one more day, for      *)
(* itself and for the candidates after it.                                 *)
RECURSIVE RolloverLoop(_, _, _)
RolloverLoop(ls, additional_days, file_ts) ==
    IF ls = << >> THEN << >>
    ELSE LET t1 == Head(ls).timestamp + additional_days
             before == t1 < file_ts
             t2 == IF before THEN t1 + DayLen ELSE t1
             days == IF before THEN additional_days + DayLen ELSE additional_days
         IN  << [Head(ls) EXCEPT !.timestamp = t2] >>
                 \o RolloverLoop(Tail(ls), days, file_ts)

ExpectedNoise == {"NoDomain", "IgnoredEvent"}

(* A filter that takes NoDomain alone for expected noise.                  *)
IsNoDomainErr(err) == err = "NoDomain"

(* matches!(err, Error::NoDomain | Error::IgnoredEvent) *)
IsIgnoredErr(err) == err \in ExpectedNoise

ignored_err_count(errs) ==
    Cardinality({k \in 1 .. Len(errs) : IsIgnoredErr(errs[k])})

(* The lines parse_file returns: the Ok lines, then the reconciled         *)
(* rollover candidates pushed after them.                                  *)
ok_results(rs, f) ==
    LinesTagged(rs, "Ok")
        \o RolloverLoop(SortByLineNum(LinesTagged(rs, "Rollover")), 0, f.timestamp)

(* The counts of the summary parse_file logs.                              *)
file_summary(rs, f) ==
    LET parsed == Len(ok_results(rs, f))
        ignored == ignored_err_count(ErrResults(rs))
    IN  [parsed |-> parsed, skipped |-> Len(rs) - parsed - ignored,
         ignored |-> ignored]

(* FileOutput.error_count: the file's non-expected line failures.          *)
error_count(sum) == sum.skipped

-----------------------------------------------------------------------------
(* The inputs: platforms, log lines and log files.                         *)

Platforms == [full_timestamp : BOOLEAN, level_regex : BOOLEAN]

(* A line that parses: logged at instant t, level "Info", matching the     *)
(* plain event only.                                                       *)
GoodLine(t) ==
    [dom |-> TRUE, ts |-> t, lvl |-> "Info", ev |-> {"repl_start"},
     bad |-> {}]

(* Lines that show each way of failing, and each shape of event match,     *)
(* and a line logged two midnights after day 0.                            *)
OddLines ==
    { [GoodLine(1) EXCEPT !.dom = FALSE],
      [GoodLine(NoTs) EXCEPT !.dom = FALSE],
      GoodLine(NoTs),
      [GoodLine(1) EXCEPT !.lvl = "NoLevel"],
      [GoodLine(1) EXCEPT !.lvl = "NoSuchLevel"],
      [GoodLine(1) EXCEPT !.ev = {}],
      [GoodLine(1) EXCEPT !.ev = {"keepalive"}],
      [GoodLine(1) EXCEPT !.ev = {"db_saved_rev"}],
      [GoodLine(1) EXCEPT !.ev = {"db_saved_rev"}, !.bad = {"rev"}],
      [GoodLine(1) EXCEPT !.ev = {"db_saved_rev"}, !.bad = {"seq"}],
      [GoodLine(NoTs) EXCEPT !.ev = {"keepalive"}],
      [GoodLine(1) EXCEPT !.ev = {"keepalive", "repl_start"}],
      [GoodLine(1) EXCEPT !.ev = {"keepalive", "db_saved_rev"}],
      GoodLine(2 * DayLen) }

LineInputs == {GoodLine(t) : t \in Instants} \cup OddLines

(* File timestamps lie on day 0. *)
FileStamps == 0 .. DayLen - 1

SeqsUpTo(S, n) == UNION {[1 .. k -> S] : k \in 1 .. n}

(* A file the probe accepted has at least one line.  The creation time is  *)
(* read only when the file name carries no timestamp.                      *)
FilesOver(lineSeqs) ==
    { [fault |-> "none", name_level |-> lv, name_ts |-> st[1],
       created |-> st[2], lines |-> ls] :
         lv \in {"None", "Error"},
         st \in {<< t, t >> : t \in FileStamps}
                    \cup {<< NoTs, 1 >>, << NoTs, NoTs >>},
         ls \in lineSeqs }
    \cup { [fault |-> ft, name_level |-> "Error", name_ts |-> 0, created |-> 0,
            lines |-> << GoodLine(0) >>] : ft \in {"io", "badname"} }

(* The files of the single-file specification. *)
FileInputs == FilesOver(SeqsUpTo(LineInputs, MaxLines))

(* The files of the multi-file specification. *)
RunLineInputs ==
    {GoodLine(2), GoodLine(NoTs),
     [GoodLine(2) EXCEPT !.ev = {"db_saved_rev"}, !.bad = {"seq"}]}

RunFileInputs ==
    { f \in FilesOver(SeqsUpTo(RunLineInputs, MaxLines)) :
          f.name_ts = 1 /\ f.fault # "badname" }

-----------------------------------------------------------------------------
(* The state after Parser::new and open_db.                                *)

NoTx == [open |-> FALSE, files |-> {}, lines |-> << >>]

Init ==
    /\ platform \in Platforms
    /\ n_files \in 1 .. MaxFiles
    /\ index = 0
    /\ pc = "next"
    /\ cur = NoInput
    /\ file = NoHeader
    /\ results = << >>
    /\ completed = {}
    /\ output = NoOutput
    /\ summary = NoSummary
    /\ file_err = "none"
    /\ store = [files |-> {}, lines |-> << >>, event_types |-> {}]
    /\ tx = NoTx
    /\ total_files = 0
    /\ total_lines = 0
    /\ err_count = 0
    /\ stream = << >>
    /\ decoder = [pos |-> 0, pointer_size |-> 0, start_time |-> 0,
                  elapsed_ticks |-> 0, tokens |-> << >>, objects |-> {}]
    /\ dpc = "idle"
    /\ decoded = << >>
    /\ decode_err = [kind |-> "none", at |-> -1]
    /\ catalog = << >>
    /\ probe_lines = << >>
    /\ probe = [pc |-> "idle", ps |-> 0, ln |-> 0, pf |-> 0]
    /\ probed = [kind |-> "none"]
    /\ dispatched = [kind |-> "none"]

(* ParserIter::next with every file visited: None, the driver's loop ends. *)
IterEnd ==
    /\ pc = "next"
    /\ index >= n_files
    /\ pc' = "done"
    /\ UNCHANGED << decVars, probeVars >>
    /\ UNCHANGED << platform, n_files, index, cur, file, results, completed,
                    output, summary, file_err, store, tx, total_files,
                    total_lines, err_count >>

(* ParserIter::next, parse_file failing before the lines are parsed: the   *)
(* error is logged and next() returns None, which ends the driver's loop.  *)
IterParseFail(inputs) ==
    /\ pc = "next"
    /\ index < n_files
    /\ \E f \in inputs :
           /\ ~file_header(f, index).ok
           /\ cur' = f
           /\ file_err' = file_header(f, index).err
    /\ index' = index + 1
    /\ pc' = "done"
    /\ UNCHANGED << decVars, probeVars >>
    /\ UNCHANGED << platform, n_files, file, results, completed, output,
                    summary, store, tx, total_files, total_lines, err_count >>

(* ParserIter::next, parse_file up to the start of the parallel phase.     *)
IterParseStart(inputs) ==
    /\ pc = "next"
    /\ index < n_files
    /\ \E f \in inputs :
           /\ file_header(f, index).ok
           /\ cur' = f
           /\ file' = file_header(f, index).file
           /\ results' = [k \in 1 .. Len(f.lines) |-> Pending]
    /\ index' = index + 1
    /\ completed' = {}
    /\ pc' = "lines"
    /\ UNCHANGED << decVars, probeVars >>
    /\ UNCHANGED << platform, n_files, output, summary, file_err, store, tx,
                    total_files, total_lines, err_count >>

(* One task of the parallel map; the tasks run in any order.               *)
ParseLineTask(i) ==
    /\ pc = "lines"
    /\ i \in 0 .. Len(cur.lines) - 1
    /\ i \notin completed
    /\ line_task(file, cur, i) # [tag |-> "Err", err |-> "panic"]
    /\ results' = [results EXCEPT ![Slot(i, completed)] = line_task(file, cur, i)]
    /\ completed' = completed \cup {i}
    /\ UNCHANGED << decVars, probeVars >>
    /\ UNCHANGED << platform, n_files, index, pc, cur, file, output, summary,
                    file_err, store, tx, total_files, total_lines, err_count >>

(* A task of the parallel map panics: the panic is resumed in the thread   *)
(* that runs parse_file and unwinds through ParserIter::next and _parse.   *)
ParseLinePanic(i) ==
    /\ pc = "lines"
    /\ i \in 0 .. Len(cur.lines) - 1
    /\ i \notin completed
    /\ line_task(file, cur, i) = [tag |-> "Err", err |-> "panic"]
    /\ pc' = "panicked"
    /\ UNCHANGED << decVars, probeVars >>
    /\ UNCHANGED << platform, n_files, index, cur, file, results, completed,
                    output, summary, file_err, store, tx, total_files,
                    total_lines, err_count >>

(* The rest of parse_file after the parallel phase, and the head of the    *)
(* driver's loop body, which counts the file and its lines.                *)
FinishFile ==
    /\ pc = "lines"
    /\ completed = 0 .. Len(cur.lines) - 1
    /\ output' = [file |-> file, lines |-> ok_results(results, file)]
    /\ summary' = file_summary(results, file)
    /\ total_files' = total_files + 1
    /\ total_lines' = total_lines + Len(ok_results(results, file))
    /\ err_count' = err_count + error_count(file_summary(results, file))
    /\ pc' = "tx_file"
    /\ UNCHANGED << decVars, probeVars >>
    /\ UNCHANGED << platform, n_files, index, cur, file, results, completed,
                    file_err, store, tx >>

(* enum Level, #[repr(i32)]: the variants in the order of the declaration, *)
(* the first with discriminant 0.                                          *)
Level == << "Info", "Verbose", "Debug", "Warn", "Error" >>

(* An Option<Level> of None is written as NULL. *)
SqlNull == -1

(* diesel_tosql_transmute!(Level, i32, ..): the discriminant is the value  *)
(* written.                                                                *)
Level_to_sql(level) ==
    IF level = "None" THEN SqlNull
    ELSE (CHOOSE d \in 1 .. Len(Level) : Level[d] = level) - 1

(* The rows written for a File and for the Lines of a file. *)
FileRow(f) == [f EXCEPT !.level = Level_to_sql(@)]

LineRows(lines) ==
    [k \in 1 .. Len(lines) |-> [lines[k] EXCEPT !.level = Level_to_sql(@)]]

(* insert_or_ignore_into(files), inside the file's transaction.            *)
InsertFile ==
    /\ pc = "tx_file"
    /\ tx' = [open |-> TRUE,
              files |-> IF \E r \in store.files : r.id = output.file.id
                        THEN {} ELSE {FileRow(output.file)},
              lines |-> << >>]
    /\ pc' = "tx_lines"
    /\ UNCHANGED << decVars, probeVars >>
    /\ UNCHANGED << platform, n_files, index, cur, file, results, completed,
                    output, summary, file_err, store, total_files, total_lines,
                    err_count >>

(* An insert of the lines that goes to the store outside the transaction.  *)
InsertLinesAutocommit ==
    /\ pc = "tx_lines"
    /\ store' = [store EXCEPT !.lines = @ \o LineRows(output.lines)]
    /\ pc' = "tx_commit"
    /\ UNCHANGED << decVars, probeVars >>
    /\ UNCHANGED << platform, n_files, index, cur, file, results, completed,
                    output, summary, file_err, tx, total_files, total_lines,
                    err_count >>

(* insert_into(lines), inside the file's transaction.                      *)
InsertLines ==
    /\ pc = "tx_lines"
    /\ tx' = [tx EXCEPT !.lines = LineRows(output.lines)]
    /\ pc' = "tx_commit"
    /\ UNCHANGED << decVars, probeVars >>
    /\ UNCHANGED << platform, n_files, index, cur, file, results, completed,
                    output, summary, file_err, store, total_files, total_lines,
                    err_count >>

(* The transaction commits; the loop goes on to the next file.             *)
Commit ==
    /\ pc = "tx_commit"
    /\ store' = [store EXCEPT !.files = @ \cup tx.files,
                              !.lines = @ \o tx.lines]
    /\ tx' = NoTx
    /\ cur' = NoInput
    /\ file' = NoHeader
    /\ results' = << >>
    /\ completed' = {}
    /\ output' = NoOutput
    /\ pc' = "next"
    /\ UNCHANGED << decVars, probeVars >>
    /\ UNCHANGED << platform, n_files, index, summary, file_err, total_files,
                    total_lines, err_count >>

(* A store error inside the transaction: it is rolled back and _parse      *)
(* returns the error.                                                      *)
StoreError ==
    /\ pc \in {"tx_file", "tx_lines", "tx_commit"}
    /\ tx' = NoTx
    /\ pc' = "failed"
    /\ UNCHANGED << decVars, probeVars >>
    /\ UNCHANGED << platform, n_files, index, cur, file, results, completed,
                    output, summary, file_err, store, total_files, total_lines,
                    err_count >>

Step ==
    \/ \E i \in 0 .. MaxLines - 1 : ParseLineTask(i)
    \/ \E i \in 0 .. MaxLines - 1 : ParseLinePanic(i)
    \/ FinishFile
    \/ InsertFile
    \/ InsertLines
    \/ Commit
    \/ StoreError
    \/ IterEnd

(* A run over up to MaxFiles files. *)
Next ==
    \/ Step
    \/ IterParseFail(RunFileInputs)
    \/ IterParseStart(RunFileInputs)

Spec == Init /\ [][Next]_vars

(* A run over one file, of any shape. *)
InitFile == Init /\ n_files = 1

NextFile ==
    \/ Step
    \/ IterParseFail(FileInputs)
    \/ IterParseStart(FileInputs)

SpecFile == InitFile /\ [][NextFile]_vars

-----------------------------------------------------------------------------
(* The binary log decoder (decoder.rs) and read_lines.                     *)
(*                                                                         *)
(* A file is its sequence of bytes; a position is the number of bytes      *)
(* consumed.  A u64 is held as the set of its one bits, so that a varint   *)
(* of any length is read exactly; where a number is needed the bits are    *)
(* summed, numbers from SmallBits bits on being taken for one number.      *)
(* A read yields [ok |-> TRUE, ...] with the new position, or [ok |->      *)
(* FALSE, err |-> e]; an error is [kind, at], at = -1 for the kinds that   *)
(* carry no stream offset.  A panic is the error of kind "panic".          *)

MAGIC_NUMBER == << 207, 178, 171, 27 >>

FORMAT_VERSION == 1

LEVEL_NAMES == << "Debug", "Verbose", "Info", "Warning", "Error" >>

MAX_LEN == 10

U64Bits == 64

SmallBits == 28

NoError == [kind |-> "none", at |-> -1]

IoError == [kind |-> "Io", at |-> -1]

InvalidVarint == [kind |-> "InvalidVarint", at |-> -1]

Panic == [kind |-> "panic", at |-> -1]

(* Error::InvalidBinaryLogs(reason, offset); the reason text is left out. *)
InvalidBinaryLogs(at) == [kind |-> "InvalidBinaryLogs", at |-> at]

Failed(e) == [ok |-> FALSE, err |-> e]

RECURSIVE Pow2(_)
Pow2(k) == IF k = 0 THEN 1 ELSE 2 * Pow2(k - 1)

(* The one bits of byte & 0x7F, shifted left by `shift` in a u64: bits     *)
(* shifted past bit 63 are lost.                                           *)
ShiftedBits(byte, shift) ==
    {shift + k : k \in {j \in 0 .. 6 : (byte \div Pow2(j)) % 2 = 1
                                        /\ shift + j < U64Bits}}

(* ReadByte::read_byte on the reader. *)
reader_read_byte(s, pos) ==
    IF pos >= Len(s) THEN Failed(IoError)
    ELSE [ok |-> TRUE, val |-> s[pos + 1], pos |-> pos + 1]

(* read_exact of n bytes; at the end of the stream the rest is consumed.   *)
read_exact(s, pos, n) ==
    IF pos + n > Len(s) THEN Failed(IoError)
    ELSE [ok |-> TRUE, val |-> SubSeq(s, pos + 1, pos + n), pos |-> pos + n]

(* varint::read: the loop from byte i on, res being the bits read so far.  *)
(* `eof` is where the reader stands when the failing read has happened.    *)
RECURSIVE VarintLoop(_, _, _, _)
VarintLoop(s, pos, i, res) ==
    IF i >= MAX_LEN THEN [ok |-> FALSE, err |-> InvalidVarint, eof |-> pos]
    ELSE IF pos >= Len(s) THEN [ok |-> FALSE, err |-> IoError, eof |-> Len(s)]
    ELSE LET byte == s[pos + 1]
             acc == res \cup ShiftedBits(byte, 7 * i)
         IN  IF byte < 128
             THEN [ok |-> TRUE, val |-> acc, pos |-> pos + 1]
             ELSE VarintLoop(s, pos + 1, i + 1, acc)

varint_read(s, pos) == VarintLoop(s, pos, 0, {})

RECURSIVE SumBits(_)
SumBits(bits) ==
    IF bits = {} THEN 0
    ELSE LET k == CHOOSE k \in bits : TRUE
         IN  Pow2(k) + SumBits(bits \ {k})

(* The number a u64 holds; every number from 2^SmallBits on counts as      *)
(* 2^SmallBits.                                                            *)
Value(bits) ==
    IF \A k \in bits : k < SmallBits THEN SumBits(bits) ELSE Pow2(SmallBits)

(* Decoder::map_err / create_err: InvalidBinaryLogs at the reader's        *)
(* position.                                                               *)
map_err(at) == InvalidBinaryLogs(at)

(* Decoder::read_byte *)
read_byte(s, pos) ==
    IF pos >= Len(s) THEN Failed(map_err(Len(s)))
    ELSE [ok |-> TRUE, val |-> s[pos + 1], pos |-> pos + 1]

(* varint::read(..).map_err(|err| self.map_err(err)) *)
varint_mapped(s, pos) ==
    LET v == varint_read(s, pos)
    IN  IF v.ok THEN v ELSE Failed(map_err(v.eof))

(* Decoder::read_string: a null-terminated string, one char per byte.      *)
RECURSIVE ReadStringLoop(_, _, _)
ReadStringLoop(s, pos, string) ==
    IF pos >= Len(s) THEN Failed(map_err(Len(s)))
    ELSE IF s[pos + 1] = 0
         THEN [ok |-> TRUE, val |-> string, pos |-> pos + 1]
         ELSE ReadStringLoop(s, pos + 1, Append(string, s[pos + 1]))

read_string(s, pos) == ReadStringLoop(s, pos, << >>)

(* A reader of tokenized strings that returns a new string without        *)
(* recording it as a token.                                                *)
read_tokenized_string_unrecorded(s, pos, tokens) ==
    LET v == varint_mapped(s, pos)
    IN  IF ~v.ok THEN v
        ELSE LET token_id == Value(v.val)
             IN  IF token_id < Len(tokens)
                 THEN [ok |-> TRUE, val |-> tokens[token_id + 1], pos |-> v.pos,
                       tokens |-> tokens]
                 ELSE IF token_id = Len(tokens)
                 THEN LET str == read_string(s, v.pos)
                      IN  IF ~str.ok THEN str
                          ELSE [ok |-> TRUE, val |-> str.val, pos |-> str.pos,
                                tokens |-> tokens]
                 ELSE Failed(InvalidBinaryLogs(v.pos))

(* Decoder::read_tokenized_string *)
read_tokenized_string(s, pos, tokens) ==
    LET v == varint_mapped(s, pos)
    IN  IF ~v.ok THEN v
        ELSE LET token_id == Value(v.val)
             IN  IF token_id < Len(tokens)
                 THEN [ok |-> TRUE, val |-> tokens[token_id + 1], pos |-> v.pos,
                       tokens |-> tokens]
                 ELSE IF token_id = Len(tokens)
                 THEN LET str == read_string(s, v.pos)
                      IN  IF ~str.ok THEN str
                          ELSE [ok |-> TRUE, val |-> str.val, pos |-> str.pos,
                                tokens |-> Append(tokens, str.val)]
                 ELSE Failed(InvalidBinaryLogs(v.pos))

(* Decoder::read_object; objects is the set of [id, name] bindings.        *)
NoObject == [some |-> FALSE, name |-> << >>]

(* A reader of objects that reads a name after every id and binds the id  *)
(* to it anew.                                                             *)
read_object_rebinding(s, pos, objects) ==
    LET v == varint_mapped(s, pos)
    IN  IF ~v.ok THEN v
        ELSE IF v.val = {}
        THEN [ok |-> TRUE, val |-> NoObject, pos |-> v.pos, objects |-> objects]
        ELSE LET str == read_string(s, v.pos)
             IN  IF ~str.ok THEN str
                 ELSE [ok |-> TRUE, val |-> [some |-> TRUE, name |-> str.val],
                       pos |-> str.pos,
                       objects |-> {o \in objects : o.id # v.val}
                                       \cup {[id |-> v.val, name |-> str.val]}]

read_object(s, pos, objects) ==
    LET v == varint_mapped(s, pos)
    IN  IF ~v.ok THEN v
        ELSE IF v.val = {}
        THEN [ok |-> TRUE, val |-> NoObject, pos |-> v.pos, objects |-> objects]
        ELSE IF \E o \in objects : o.id = v.val
        THEN [ok |-> TRUE,
              val |-> [some |-> TRUE,
                       name |-> (CHOOSE o \in objects : o.id = v.val).name],
              pos |-> v.pos, objects |-> objects]
        ELSE LET str == read_string(s, v.pos)
             IN  IF ~str.ok THEN str
                 ELSE [ok |-> TRUE, val |-> [some |-> TRUE, name |-> str.val],
                       pos |-> str.pos,
                       objects |-> objects \cup {[id |-> v.val, name |-> str.val]}]

(* Text: a string is the sequence of its character codes.                  *)

Percent == 37

Minus == 45

Dot == 46

Star == 42

Flags == {35, 48, 45, 32, 43, 39}

Digits == 48 .. 57

LengthModifiers == {104, 108, 106, 116, 122, 113}

SignedSpecs == {99, 100, 105}

CharSpec == 99

HexSpecs == {120, 88}

UnsignedSpec == 117

FloatSpecs == {101, 69, 102, 70, 103, 71, 97, 65}

StringSpecs == {64, 115}

PointerSpec == 112

HexDigit(d) == IF d < 10 THEN 48 + d ELSE 87 + d

(* u64::to_string *)
RECURSIVE Decimal(_)
Decimal(n) ==
    IF n < 10 THEN << 48 + n >> ELSE Decimal(n \div 10) \o << 48 + (n % 10) >>

(* The digits of {:x} *)
RECURSIVE Hex(_)
Hex(n) ==
    IF n < 16 THEN << HexDigit(n) >> ELSE Hex(n \div 16) \o << HexDigit(n % 16) >>

RECURSIVE PadZero(_, _)
PadZero(text, width) ==
    IF Len(text) >= width THEN text ELSE PadZero(<< 48 >> \o text, width)

(* The digits of {:x} of the little-endian integer in `bytes`. *)
RECURSIVE StripZeros(_)
StripZeros(text) ==
    IF Len(text) > 1 /\ Head(text) = 48 THEN StripZeros(Tail(text)) ELSE text

RECURSIVE HexDigitsBE(_)
HexDigitsBE(bytes) ==
    IF bytes = << >> THEN << >>
    ELSE HexDigitsBE(Tail(bytes))
             \o << HexDigit(Head(bytes) \div 16), HexDigit(Head(bytes) % 16) >>

HexLE(bytes) == StripZeros(HexDigitsBE(bytes))

(* format!("{:#0w$x}"): the prefix 0x counts in the width w. *)
AltHex(bytes, width) == << 48, 120 >> \o PadZero(HexLE(bytes), width - 2)

(* bytes.map(|b| format!("{:02x}", b)) *)
RECURSIVE HexEachByte(_)
HexEachByte(bytes) ==
    IF bytes = << >> THEN << >>
    ELSE << HexDigit(Head(bytes) \div 16), HexDigit(Head(bytes) % 16) >>
             \o HexEachByte(Tail(bytes))

(* f64::to_string of the double in `bytes`: the text stands as the mark -1 *)
(* followed by the eight bytes.                                            *)
FloatText(bytes) == << -1 >> \o bytes

(* The index loops of read_message: the first index from i on whose char   *)
(* is not in `chars`; -1 when the index runs off the format string, where  *)
(* the indexing panics.                                                    *)
RECURSIVE SkipWhile(_, _, _)
SkipWhile(fc, i, chars) ==
    IF i < 0 \/ i >= Len(fc) THEN -1
    ELSE IF fc[i + 1] \in chars THEN SkipWhile(fc, i + 1, chars)
    ELSE i

(* read_message from the `%` at index i to the specifier: the index of the *)
(* specifier (-1: the indexing panics), is_minus and is_dot_star.          *)
parse_conversion(fc, i) ==
    IF i + 1 >= Len(fc) THEN [at |-> -1, is_minus |-> FALSE, is_dot_star |-> FALSE]
    ELSE LET is_minus == fc[i + 2] = Minus
             i1 == IF is_minus THEN i + 2 ELSE i + 1
             i3 == SkipWhile(fc, SkipWhile(fc, i1, Flags), Digits)
             dot == i3 # -1 /\ fc[i3 + 1] = Dot
             star == dot /\ i3 + 1 < Len(fc) /\ fc[i3 + 2] = Star
             i4 == IF ~dot THEN i3
                   ELSE IF i3 + 1 >= Len(fc) THEN -1
                   ELSE IF star THEN i3 + 2
                   ELSE SkipWhile(fc, i3 + 1, Digits)
         IN  [at |-> SkipWhile(fc, i4, LengthModifiers),
              is_minus |-> is_minus, is_dot_star |-> star]

(* The arms of `match c` in read_message: the text the conversion adds.    *)
conversion(c, is_minus, is_dot_star, s, pos, tokens, pointer_size) ==
    IF c \in SignedSpecs
    THEN LET neg == read_byte(s, pos)
         IN  IF ~neg.ok THEN neg
             ELSE LET v == varint_read(s, neg.pos)
                  IN  IF ~v.ok THEN Failed(v.err)
                      ELSE IF U64Bits - 1 \in v.val THEN Failed(Panic)
                      ELSE LET value == Value(v.val)
                               is_negative == neg.val > 0
                           IN  [ok |-> TRUE, pos |-> v.pos, tokens |-> tokens,
                                text |->
                                    IF c = CharSpec
                                    THEN << IF is_negative
                                            THEN (256 - (value % 256)) % 256
                                            ELSE value % 256 >>
                                    ELSE IF is_negative /\ value # 0
                                         THEN << Minus >> \o Decimal(value)
                                         ELSE Decimal(value)]
    ELSE IF c \in HexSpecs \/ c = UnsignedSpec
    THEN LET v == varint_read(s, pos)
         IN  IF ~v.ok THEN Failed(v.err)
             ELSE [ok |-> TRUE, pos |-> v.pos, tokens |-> tokens,
                   text |-> IF c = UnsignedSpec THEN Decimal(Value(v.val))
                            ELSE PadZero(Hex(Value(v.val)), 2)]
    ELSE IF c \in FloatSpecs
    THEN LET buf == read_exact(s, pos, 8)
         IN  IF ~buf.ok THEN buf
             ELSE [ok |-> TRUE, pos |-> buf.pos, tokens |-> tokens,
                   text |-> FloatText(buf.val)]
    ELSE IF c \in StringSpecs /\ is_minus /\ ~is_dot_star
    THEN LET str == read_tokenized_string(s, pos, tokens)
         IN  IF ~str.ok THEN str
             ELSE [ok |-> TRUE, pos |-> str.pos, tokens |-> str.tokens,
                   text |-> str.val]
    ELSE IF c \in StringSpecs
    THEN LET length == varint_read(s, pos)
         IN  IF ~length.ok THEN Failed(length.err)
             ELSE LET buf == read_exact(s, length.pos, Value(length.val))
                  IN  IF ~buf.ok THEN buf
                      ELSE [ok |-> TRUE, pos |-> buf.pos, tokens |-> tokens,
                            text |-> IF is_minus THEN HexEachByte(buf.val)
                                     ELSE buf.val]
    ELSE IF c = PointerSpec /\ pointer_size = 8
    THEN LET buf == read_exact(s, pos, 8)
         IN  IF ~buf.ok THEN buf
             ELSE [ok |-> TRUE, pos |-> buf.pos, tokens |-> tokens,
                   text |-> AltHex(buf.val, 16)]
    ELSE IF c = PointerSpec /\ pointer_size = 4
    THEN LET buf == read_exact(s, pos, 4)
         IN  IF ~buf.ok THEN buf
             ELSE [ok |-> TRUE, pos |-> buf.pos, tokens |-> tokens,
                   text |-> AltHex(buf.val, 8)]
    ELSE IF c = Percent
    THEN [ok |-> TRUE, pos |-> pos, tokens |-> tokens, text |-> << Percent >>]
    ELSE Failed(InvalidBinaryLogs(pos))

(* The `while i < format_chars.len()` loop of read_message.                *)
RECURSIVE Replay(_, _, _, _, _, _, _)
Replay(fc, i, s, pos, tokens, pointer_size, message) ==
    IF i >= Len(fc) \/ fc[i + 1] = 0
    THEN [ok |-> TRUE, val |-> message, pos |-> pos, tokens |-> tokens]
    ELSE IF fc[i + 1] # Percent
    THEN Replay(fc, i + 1, s, pos, tokens, pointer_size,
                Append(message, fc[i + 1]))
    ELSE LET spec == parse_conversion(fc, i)
         IN  IF spec.at = -1 THEN Failed(Panic)
             ELSE LET conv == conversion(fc[spec.at + 1], spec.is_minus,
                                         spec.is_dot_star, s, pos, tokens,
                                         pointer_size)
                  IN  IF ~conv.ok THEN conv
                      ELSE Replay(fc, spec.at + 1, s, conv.pos, conv.tokens,
                                  pointer_size, message \o conv.text)

(* Decoder::read_message *)
read_message(s, pos, tokens, pointer_size) ==
    LET format_string == read_tokenized_string(s, pos, tokens)
    IN  IF ~format_string.ok THEN format_string
        ELSE Replay(format_string.val, 0, s, format_string.pos,
                    format_string.tokens, pointer_size, << >>)

TICKS_PER_SECOND == 1000000

(* Decoder::read_timestamp: the entry's delta added to elapsed_ticks. *)
read_timestamp(s, d) ==
    LET v == varint_mapped(s, d.pos)
    IN  IF ~v.ok THEN v
        ELSE LET elapsed == d.elapsed_ticks + Value(v.val)
             IN  [ok |-> TRUE, pos |-> v.pos, elapsed_ticks |-> elapsed,
                  val |-> d.start_time * TICKS_PER_SECOND + elapsed]

(* `as i8` *)
AsI8(byte) == IF byte >= 128 THEN byte - 256 ELSE byte

(* The level name of read_entry: LEVEL_NAMES.get(level as usize) for a     *)
(* positive level byte, the empty name otherwise.                          *)
level_name(level, at) ==
    IF level > 0
    THEN IF level < Len(LEVEL_NAMES)
         THEN [ok |-> TRUE, val |-> LEVEL_NAMES[level + 1]]
         ELSE Failed(InvalidBinaryLogs(at))
    ELSE [ok |-> TRUE, val |-> ""]

(* Decoder::read_entry on the decoder d: "entry" with the DecoderEntry and *)
(* the decoder after it, "end" for Ok(None), "err" for Err.  The steps of  *)
(* read_entry follow one another: each takes what the steps before it      *)
(* have read.                                                              *)
EntryWithMessage(d, timestamp, level, domain, object, message) ==
    IF ~message.ok THEN [kind |-> "err", err |-> message.err]
    ELSE [kind |-> "entry",
          entry |-> [timestamp |-> timestamp.val, domain |-> domain.val,
                     level |-> level.val, object |-> object.val,
                     message |-> message.val],
          decoder |-> [d EXCEPT !.pos = message.pos,
                                !.elapsed_ticks = timestamp.elapsed_ticks,
                                !.tokens = message.tokens,
                                !.objects = object.objects]]

EntryWithObject(s, d, timestamp, level, domain, object) ==
    IF ~object.ok THEN [kind |-> "err", err |-> object.err]
    ELSE EntryWithMessage(d, timestamp, level, domain, object,
                          read_message(s, object.pos, domain.tokens,
                                       d.pointer_size))

EntryWithDomain(s, d, timestamp, level, domain) ==
    IF ~domain.ok THEN [kind |-> "err", err |-> domain.err]
    ELSE EntryWithObject(s, d, timestamp, level, domain,
                         read_object(s, domain.pos, d.objects))

EntryWithLevel(s, d, timestamp, byte) ==
    IF ~byte.ok THEN [kind |-> "err", err |-> byte.err]
    ELSE LET level == level_name(AsI8(byte.val), byte.pos)
         IN  IF ~level.ok THEN [kind |-> "err", err |-> level.err]
             ELSE EntryWithDomain(s, d, timestamp, level,
                                  read_tokenized_string(s, byte.pos, d.tokens))

EntryWithTimestamp(s, d, timestamp) ==
    IF ~timestamp.ok THEN [kind |-> "end"]
    ELSE EntryWithLevel(s, d, timestamp, read_byte(s, timestamp.pos))

read_entry(s, d) == EntryWithTimestamp(s, d, read_timestamp(s, d))

NoDecoder == [pos |-> 0, pointer_size |-> 0, start_time |-> 0,
              elapsed_ticks |-> 0, tokens |-> << >>, objects |-> {}]

(* DateTime::from_timestamp(secs, 0) is None from about 2^43 seconds on.   *)
TimestampBits == 43

(* Decoder::new *)
decoder_new(s) ==
    LET header == read_exact(s, 0, 6)
    IN  IF ~header.ok THEN header
        ELSE IF SubSeq(header.val, 1, 4) # MAGIC_NUMBER
        THEN Failed(InvalidBinaryLogs(0))
        ELSE IF header.val[5] # FORMAT_VERSION THEN Failed(InvalidBinaryLogs(0))
        ELSE IF header.val[6] \notin {4, 8} THEN Failed(InvalidBinaryLogs(0))
        ELSE LET start == varint_read(s, 6)
             IN  IF ~start.ok THEN Failed(start.err)
                 ELSE IF \E k \in start.val : k >= TimestampBits
                 THEN Failed(InvalidBinaryLogs(0))
                 ELSE [ok |-> TRUE,
                       val |-> [pos |-> start.pos,
                                pointer_size |-> header.val[6],
                                start_time |-> Value(start.val),
                                elapsed_ticks |-> 0,
                                tokens |-> << >>, objects |-> {}]]

(* is_encoded *)
is_encoded(s) ==
    LET magic == read_exact(s, 0, 4)
    IN  IF ~magic.ok THEN magic
        ELSE [ok |-> TRUE, val |-> magic.val = MAGIC_NUMBER]

(* Whether the bytes are UTF-8, as read_to_string requires. *)
RECURSIVE Utf8(_)
Utf8(bs) ==
    IF bs = << >> THEN TRUE
    ELSE LET b == Head(bs)
             n == IF b < 128 THEN 1
                  ELSE IF b \in 194 .. 223 THEN 2
                  ELSE IF b \in 224 .. 239 THEN 3
                  ELSE IF b \in 240 .. 244 THEN 4
                  ELSE 0
         IN  /\ n # 0
             /\ Len(bs) >= n
             /\ \A k \in 2 .. n : bs[k] \in 128 .. 191
             /\ b = 224 => bs[2] >= 160
             /\ b = 237 => bs[2] <= 159
             /\ b = 240 => bs[2] >= 144
             /\ b = 244 => bs[2] <= 143
             /\ Utf8(SubSeq(bs, n + 1, Len(bs)))

(* str::lines: the text between line feeds, a carriage return before a     *)
(* line feed dropped, no empty line after the last line feed.              *)
RECURSIVE TextLinesFrom(_, _)
TextLinesFrom(bs, line) ==
    IF bs = << >> THEN IF line = << >> THEN << >> ELSE << line >>
    ELSE IF Head(bs) = 10
    THEN << IF line # << >> /\ line[Len(line)] = 13
            THEN SubSeq(line, 1, Len(line) - 1) ELSE line >>
             \o TextLinesFrom(Tail(bs), << >>)
    ELSE TextLinesFrom(Tail(bs), Append(line, Head(bs)))

(* std::fs::read_to_string(..)?.lines() *)
read_text(s) ==
    IF ~Utf8(s) THEN Failed(IoError)
    ELSE [ok |-> TRUE, val |-> TextLinesFrom(s, << >>)]

-----------------------------------------------------------------------------
(* The files read_lines is given.                                          *)

MaxEntries == 2

(* An entry as the writer of a binary log holds it: the varint of the      *)
(* delta, the level byte, the domain, the object (id 0: none), the format  *)
(* string and the arguments of its conversions.  An argument is raw bytes, *)
(* a tokenized string, or a pointer of the header's pointer size.          *)
Raw(bytes) == [kind |-> "raw", bytes |-> bytes]

Token(text) == [kind |-> "token", bytes |-> text]

Pointer(bytes) == [kind |-> "pointer", bytes |-> bytes]

BaseEntry ==
    [delta |-> << 1 >>, level |-> 2, domain |-> << 68 >>,
     object |-> [id |-> 0, name |-> << >>],
     format |-> << 104, 105 >>, args |-> << >>]

(* Format strings with the arguments their conversions read:               *)
(* %d %i %c %u %x %5.2f %-s %s %-.*s %p %% a%ldb                           *)
MessageInputs ==
    { << << 37, 100 >>, << Raw(<< 0, 5 >>) >> >>,
      << << 37, 105 >>, << Raw(<< 1, 5 >>) >> >>,
      << << 37, 99 >>, << Raw(<< 0, 65 >>) >> >>,
      << << 37, 117 >>, << Raw(<< 200, 1 >>) >> >>,
      << << 37, 120 >>, << Raw(<< 10 >>) >> >>,
      << << 37, 53, 46, 50, 102 >>, << Raw(<< 0, 0, 0, 0, 0, 0, 240, 63 >>) >> >>,
      << << 37, 45, 115 >>, << Token(<< 116 >>) >> >>,
      << << 37, 115 >>, << Raw(<< 2, 104, 105 >>) >> >>,
      << << 37, 45, 46, 42, 115 >>, << Raw(<< 1, 171 >>) >> >>,
      << << 37, 112 >>, << Pointer(<< 1, 0, 0, 0, 0, 0, 0, 0 >>) >> >>,
      << << 37, 112 >>, << Pointer(<< 239, 190, 173, 222, 0, 0, 0, 16 >>) >> >>,
      << << 37, 37 >>, << >> >>,
      << << 97, 37, 108, 100, 98 >>, << Raw(<< 0, 7 >>) >> >> }

LevelInputs == {0, 1, 4, 5, 255}

EntryInputs ==
    {BaseEntry}
        \cup {[BaseEntry EXCEPT !.level = l] : l \in LevelInputs}
        \cup {[BaseEntry EXCEPT !.delta = << 200, 1 >>],
              [BaseEntry EXCEPT !.domain = << 83 >>],
              [BaseEntry EXCEPT !.object = [id |-> 1, name |-> << 111 >>]]}
        \cup {[BaseEntry EXCEPT !.format = m[1], !.args = m[2]] :
                  m \in MessageInputs}

(* The entries that follow the first one of a log: they repeat or extend  *)
(* the tokens and the objects the first entry wrote.                       *)
LaterEntries ==
    { BaseEntry,
      [BaseEntry EXCEPT !.domain = << 83 >>],
      [BaseEntry EXCEPT !.object = [id |-> 1, name |-> << 111 >>]],
      [BaseEntry EXCEPT !.format = << 37, 45, 115 >>,
                        !.args = << Token(<< 116 >>) >>] }

EntrySeqs ==
    {<< >>} \cup
    { << first >> \o rest :
          first \in EntryInputs,
          rest \in {<< >>} \cup SeqsUpTo(LaterEntries, MaxEntries - 1) }

(* The bytes of a tokenized string, given the tokens written so far. *)
EncodeToken(text, tokens) ==
    IF \E k \in 1 .. Len(tokens) : tokens[k] = text
    THEN [bytes |-> << (CHOOSE k \in 1 .. Len(tokens) : tokens[k] = text) - 1 >>,
          tokens |-> tokens]
    ELSE [bytes |-> << Len(tokens) >> \o text \o << 0 >>,
          tokens |-> Append(tokens, text)]

RECURSIVE EncodeArgs(_, _, _)
EncodeArgs(args, tokens, pointer_size) ==
    IF args = << >> THEN [bytes |-> << >>, tokens |-> tokens]
    ELSE LET a == Head(args)
             first == IF a.kind = "token" THEN EncodeToken(a.bytes, tokens)
                      ELSE IF a.kind = "pointer"
                      THEN [bytes |-> SubSeq(a.bytes, 1, pointer_size),
                            tokens |-> tokens]
                      ELSE [bytes |-> a.bytes, tokens |-> tokens]
             rest == EncodeArgs(Tail(args), first.tokens, pointer_size)
         IN  [bytes |-> first.bytes \o rest.bytes, tokens |-> rest.tokens]

(* The bytes of a sequence of entries, in the grammar read_entry reads. *)
RECURSIVE EncodeEntries(_, _, _, _)
EncodeEntries(entries, tokens, seen, pointer_size) ==
    IF entries = << >> THEN << >>
    ELSE LET e == Head(entries)
             domain == EncodeToken(e.domain, tokens)
             object == IF e.object.id = 0 \/ e.object.id \in seen
                       THEN << e.object.id >>
                       ELSE << e.object.id >> \o e.object.name \o << 0 >>
             format == EncodeToken(e.format, domain.tokens)
             args == EncodeArgs(e.args, format.tokens, pointer_size)
         IN  e.delta \o << e.level >> \o domain.bytes \o object
                 \o format.bytes \o args.bytes
                 \o EncodeEntries(Tail(entries), args.tokens,
                                  seen \cup {e.object.id}, pointer_size)

Header(version, pointer_size, start) ==
    MAGIC_NUMBER \o << version, pointer_size >> \o start

(* Binary logs that follow the format, each with the number of its        *)
(* entries.                                                                *)
WellFormedLogs ==
    { [bytes |-> Header(FORMAT_VERSION, ps, << 5 >>)
                     \o EncodeEntries(es, << >>, {}, ps),
       entries |-> Len(es)] :
          ps \in {4, 8},
          es \in EntrySeqs }

(* Entries that break the format: a token id past the token list, a        *)
(* specifier read_message does not know, format strings that end inside a  *)
(* conversion.                                                             *)
BrokenBodies ==
    { << 1, 2, 3 >>,
      << 1, 2, 0, 68, 0, 0, 1, 37, 121, 0 >>,
      << 1, 2, 0, 68, 0, 0, 1, 37, 0 >>,
      << 1, 2, 0, 68, 0, 0, 1, 37, 45, 0 >>,
      << 1, 2, 0, 68, 0, 0, 1, 37, 46, 0 >>,
      << 1, 2, 0, 68, 0, 0, 1, 37, 46, 42, 0 >>,
      << 1, 2, 0, 68, 0, 0, 1, 37, 108, 0 >>,
      << 1, 2, 0, 68, 0, 0, 1, 37, 45, 115, 9 >> }

(* Headers that break the format or hold a start time of ten or more     *)
(* varint bytes, and text files.                                           *)
OtherFiles ==
    { Header(2, 8, << 5 >>), Header(2, 8, << >>), << 207, 178, 171, 27, 2 >>,
      Header(FORMAT_VERSION, 5, << 5 >>),
      Header(FORMAT_VERSION, 8, << 128 >>),
      Header(FORMAT_VERSION, 8,
             << 128, 128, 128, 128, 128, 128, 128, 128, 128, 2 >>),
      Header(FORMAT_VERSION, 8,
             << 129, 128, 128, 128, 128, 128, 128, 128, 128, 128, 0 >>),
      << >>, << 97 >>, << 97, 10 >>, << 97, 10, 98 >>, << 97, 13, 10, 98, 10 >>,
      << 97, 98, 99, 100, 10, 101 >>, << 207, 178, 171, 28, 10 >>,
      << 206, 178, 97, 98, 10 >> }

StreamInputs ==
    UNION { {SubSeq(w.bytes, 1, n) : n \in 0 .. Len(w.bytes)} :
                w \in WellFormedLogs }
        \cup {Header(FORMAT_VERSION, 8, << 5 >>) \o b : b \in BrokenBodies}
        \cup OtherFiles

-----------------------------------------------------------------------------
(* read_lines as a state machine: the header, then one entry at a time.    *)

InitDecode ==
    /\ platform = [full_timestamp |-> TRUE, level_regex |-> TRUE]
    /\ n_files = 1
    /\ index = 0
    /\ pc = "read_lines"
    /\ cur = NoInput
    /\ file = NoHeader
    /\ results = << >>
    /\ completed = {}
    /\ output = NoOutput
    /\ summary = NoSummary
    /\ file_err = "none"
    /\ store = [files |-> {}, lines |-> << >>, event_types |-> {}]
    /\ tx = NoTx
    /\ total_files = 0
    /\ total_lines = 0
    /\ err_count = 0
    /\ stream \in StreamInputs
    /\ decoder = NoDecoder
    /\ dpc = "open"
    /\ decoded = << >>
    /\ decode_err = NoError
    /\ catalog = << >>
    /\ probe_lines = << >>
    /\ probe = [pc |-> "idle", ps |-> 0, ln |-> 0, pf |-> 0]
    /\ probed = [kind |-> "none"]
    /\ dispatched = [kind |-> "none"]

(* read_lines on a file that is_encoded cannot read or finds not encoded:  *)
(* the error, or the lines of the text.                                    *)
ReadPlain ==
    /\ dpc = "open"
    /\ IF is_encoded(stream).ok THEN ~is_encoded(stream).val ELSE TRUE
    /\ IF ~is_encoded(stream).ok
       THEN decode_err' = is_encoded(stream).err /\ decoded' = decoded
       ELSE IF ~read_text(stream).ok
       THEN decode_err' = read_text(stream).err /\ decoded' = decoded
       ELSE decode_err' = decode_err /\ decoded' = read_text(stream).val
    /\ dpc' = "plain"
    /\ UNCHANGED << stream, decoder >>
    /\ UNCHANGED << runVars, probeVars >>

(* decode_lines up to Decoder::new, on an encoded file. *)
DecoderNew ==
    /\ dpc = "open"
    /\ IF is_encoded(stream).ok THEN is_encoded(stream).val ELSE FALSE
    /\ IF decoder_new(stream).ok
       THEN /\ decoder' = decoder_new(stream).val
            /\ dpc' = "entries"
            /\ decode_err' = decode_err
       ELSE /\ decoder' = decoder
            /\ dpc' = "failed"
            /\ decode_err' = decoder_new(stream).err
    /\ UNCHANGED << stream, decoded >>
    /\ UNCHANGED << runVars, probeVars >>

(* Decoder::lines yields the next entry, rendered. *)
ReadEntryLine ==
    /\ dpc = "entries"
    /\ read_entry(stream, decoder).kind = "entry"
    /\ decoded' = Append(decoded, read_entry(stream, decoder).entry)
    /\ decoder' = read_entry(stream, decoder).decoder
    /\ UNCHANGED << stream, dpc, decode_err >>
    /\ UNCHANGED << runVars, probeVars >>

(* read_entry returns Ok(None): the iterator ends, collect() returns the   *)
(* lines.                                                                  *)
ReadEntryEnd ==
    /\ dpc = "entries"
    /\ read_entry(stream, decoder).kind = "end"
    /\ dpc' = "decoded"
    /\ UNCHANGED << stream, decoder, decoded, decode_err >>
    /\ UNCHANGED << runVars, probeVars >>

(* read_entry returns Err (or panics): collect() returns the error.        *)
ReadEntryFail ==
    /\ dpc = "entries"
    /\ read_entry(stream, decoder).kind = "err"
    /\ decode_err' = read_entry(stream, decoder).err
    /\ dpc' = "failed"
    /\ UNCHANGED << stream, decoder, decoded >>
    /\ UNCHANGED << runVars, probeVars >>

NextDecode ==
    \/ ReadPlain
    \/ DecoderNew
    \/ ReadEntryLine
    \/ ReadEntryEnd
    \/ ReadEntryFail

SpecDecode == InitDecode /\ [][NextDecode]_vars

-----------------------------------------------------------------------------
(* The format probe: patterns_for_file and pattern_for_version, generated  *)
(* by create_regex_patterns.  Versions are points of the semver order.     *)

MaxVersion == 5

Versions == 0 .. MaxVersion

(* The text of a `ver` capture: a semver version, the literal "3.2", or    *)
(* any other text (such as "3.1"), which Version::parse rejects.           *)
Semver(v) == [text |-> "semver", v |-> v]

VerTexts ==
    {Semver(v) : v \in Versions}
        \cup {[text |-> "3.2", v |-> -1], [text |-> "other", v |-> -1]}

(* Version 3.2.0 in the model's order. *)
V320 == 2

(* The temporary fix: "3.2" is read as "3.2.0". *)
version_str(t) == IF t.text = "3.2" THEN Semver(V320) ELSE t

(* Version::parse(version_str).map_err(Error::Semver) *)
Version_parse(t) ==
    IF t.text = "semver" THEN [ok |-> TRUE, v |-> t.v]
    ELSE [ok |-> FALSE, err |-> [kind |-> "Semver"]]

(* The version regexes of the platforms of each PatternSet, by name.  Two  *)
(* PatternSets can share a platform's version regex.                       *)
PlatformRegexes == << << "a", "b" >>, << "b", "c" >> >>

RECURSIVE Ascending(_)
Ascending(S) ==
    IF S = {} THEN << >>
    ELSE LET least == CHOOSE x \in S : \A y \in S : x <= y
         IN  << least >> \o Ascending(S \ {least})

(* A catalog whose ranges are [b1, b2), [b2, b3), ...: the pattern files   *)
(* are named <from>_<to> and PATTERNS_MAP holds them by ascending range.   *)
CatalogOver(bounds) ==
    [i \in 1 .. Len(bounds) - 1 |->
        [from |-> bounds[i], to |-> bounds[i + 1], set |-> i]]

Catalogs ==
    { CatalogOver(Ascending(B)) :
          B \in { X \in SUBSET (1 .. MaxVersion) :
                      /\ Cardinality(X) >= 2
                      /\ Cardinality(X) <= Len(PlatformRegexes) + 1 } }

(* Two pattern files whose ranges overlap, the second inside the first:    *)
(* parse_yaml takes every file named <from>_<to> and keeps the files by    *)
(* ascending (from, to).                                                   *)
OverlappingCatalogs ==
    { << [from |-> 1, to |-> x[2], set |-> 1],
         [from |-> x[1], to |-> x[2], set |-> 2] >> :
          x \in {y \in (2 .. MaxVersion) \X (2 .. MaxVersion) : y[1] < y[2]} }

(* The event keys of each PatternSet, by its place in the catalog.         *)
SetEventKeys == << EventKeys, EventKeys \ {Events[1].key} >>

(* A range that also holds its upper end. *)
RangeContainsInclusive(r, v) == r.from <= v /\ v <= r.to

(* Version::new(..)..Version::new(..): a half-open range. *)
RangeContains(r, v) == r.from <= v /\ v < r.to

NotLogs == [kind |-> "NotLogs"]

UnsupportedVersion(v) == [kind |-> "UnsupportedVersion", version |-> v]

UnsupportedPlatform(line) == [kind |-> "UnsupportedPlatform", line |-> line]

(* PATTERNS_MAP.get(&version).ok_or(Error::UnsupportedVersion(version)):   *)
(* RangeMap::from inserts the ranges in the catalog's order, and a range   *)
(* inserted later takes the versions it shares with an earlier one.        *)
PATTERNS_MAP_get(cat, v) ==
    IF \E i \in 1 .. Len(cat) : RangeContains(cat[i], v)
    THEN [ok |-> TRUE,
          val |-> cat[CHOOSE i \in 1 .. Len(cat) :
                          /\ RangeContains(cat[i], v)
                          /\ \A j \in i + 1 .. Len(cat) :
                                 ~RangeContains(cat[j], v)]]
    ELSE [ok |-> FALSE, err |-> UnsupportedVersion(v)]

(* The key an EventBuilder looks up first: the least key of its events.    *)
FirstKey(set) ==
    Events[CHOOSE k \in 1 .. Len(Events) :
               /\ Events[k].key \in SetEventKeys[set]
               /\ \A j \in 1 .. k - 1 : Events[j].key \notin SetEventKeys[set]].key

(* The generated parse_event: the arms `ver if ver >= from && ver < to`,   *)
(* one per pattern file in the catalog's order; the first arm that holds   *)
(* the version runs its EventBuilder on the patterns the parser holds.     *)
(* The builder indexes patterns.events with its own keys, and indexing     *)
(* with a key the map lacks panics.                                        *)
parse_event(cat, v, patterns) ==
    IF \A i \in 1 .. Len(cat) : ~RangeContains(cat[i], v)
    THEN UnsupportedVersion(v)
    ELSE LET arm == CHOOSE i \in 1 .. Len(cat) :
                        /\ RangeContains(cat[i], v)
                        /\ \A j \in 1 .. i - 1 : ~RangeContains(cat[j], v)
         IN  IF FirstKey(cat[arm].set) \in SetEventKeys[patterns]
             THEN [kind |-> "EventBuilder", set |-> cat[arm].set]
             ELSE [kind |-> "panic", set |-> cat[arm].set]

(* The platforms of a PatternSet whose version regex matches the line. *)
MatchingPlatforms(set, line) ==
    {k \in 1 .. Len(PlatformRegexes[set]) : PlatformRegexes[set][k] \in line.re}

pattern_for_version(cat, line, v) ==
    LET pattern == PATTERNS_MAP_get(cat, v)
    IN  IF ~pattern.ok THEN pattern.err
        ELSE LET hits == MatchingPlatforms(pattern.val.set, line)
             IN  IF hits = {} THEN UnsupportedPlatform(line)
                 ELSE [kind |-> "Ok", set |-> pattern.val.set,
                       platform |-> CHOOSE k \in hits : \A o \in hits : k <= o,
                       version |-> v]

(* What patterns_for_file returns once a version regex matched the line. *)
version_found(cat, line) ==
    LET version == Version_parse(version_str(line.ver))
    IN  IF ~version.ok THEN version.err
        ELSE pattern_for_version(cat, line, version.v)

(* The lines of a probed file: the version regexes that match the line and *)
(* the text of the `ver` capture.                                          *)
ProbeLineInputs ==
    {[re |-> {}, ver |-> Semver(0)]}
        \cup {[re |-> r, ver |-> t] :
                  r \in {{"a"}, {"c"}, {"b", "c"}}, t \in VerTexts}

MaxProbeLines == 2

ProbeFileInputs == {<< >>} \cup SeqsUpTo(ProbeLineInputs, MaxProbeLines)

InitProbe ==
    /\ platform = [full_timestamp |-> TRUE, level_regex |-> TRUE]
    /\ n_files = 1
    /\ index = 0
    /\ pc = "probe"
    /\ cur = NoInput
    /\ file = NoHeader
    /\ results = << >>
    /\ completed = {}
    /\ output = NoOutput
    /\ summary = NoSummary
    /\ file_err = "none"
    /\ store = [files |-> {}, lines |-> << >>, event_types |-> {}]
    /\ tx = NoTx
    /\ total_files = 0
    /\ total_lines = 0
    /\ err_count = 0
    /\ stream = << >>
    /\ decoder = NoDecoder
    /\ dpc = "idle"
    /\ decoded = << >>
    /\ decode_err = NoError
    /\ catalog \in Catalogs \cup OverlappingCatalogs
    /\ probe_lines \in ProbeFileInputs
    /\ probe = [pc |-> "scan", ps |-> 1, ln |-> 1, pf |-> 1]
    /\ probed = [kind |-> "none"]
    /\ dispatched = [kind |-> "none"]

(* The loops of patterns_for_file are inside the catalog and the file. *)
Scanning ==
    /\ probe.pc = "scan"
    /\ probe.ps <= Len(catalog)
    /\ probe_lines # << >>

AtCursor ==
    PlatformRegexes[catalog[probe.ps].set][probe.pf] \in probe_lines[probe.ln].re

(* `continue`: the platform's version regex does not match the line; the   *)
(* next platform, else the next line, else the next PatternSet.            *)
ProbeSkip ==
    /\ Scanning
    /\ ~AtCursor
    /\ probe' =
          IF probe.pf < Len(PlatformRegexes[catalog[probe.ps].set])
          THEN [probe EXCEPT !.pf = probe.pf + 1]
          ELSE IF probe.ln < Len(probe_lines)
          THEN [probe EXCEPT !.ln = probe.ln + 1, !.pf = 1]
          ELSE [probe EXCEPT !.ps = probe.ps + 1, !.ln = 1, !.pf = 1]
    /\ UNCHANGED << catalog, probe_lines, probed, dispatched >>
    /\ UNCHANGED << runVars, decVars >>

(* The first match: the version is parsed and pattern_for_version decides. *)
ProbeMatch ==
    /\ Scanning
    /\ AtCursor
    /\ probed' = version_found(catalog, probe_lines[probe.ln])
    /\ probe' = [probe EXCEPT !.pc = "done"]
    /\ UNCHANGED << catalog, probe_lines, dispatched >>
    /\ UNCHANGED << runVars, decVars >>

(* The loops end without a match: Err(Error::NotLogs(path)). *)
ProbeNotLogs ==
    /\ probe.pc = "scan"
    /\ ~Scanning
    /\ probed' = NotLogs
    /\ probe' = [probe EXCEPT !.pc = "done"]
    /\ UNCHANGED << catalog, probe_lines, dispatched >>
    /\ UNCHANGED << runVars, decVars >>

(* Parser::new keeps the probed patterns and version; parse_line hands    *)
(* them to parse_event.                                                    *)
ParseEvent ==
    /\ probe.pc = "done"
    /\ probed.kind = "Ok"
    /\ dispatched.kind = "none"
    /\ dispatched' = parse_event(catalog, probed.version, probed.set)
    /\ UNCHANGED << catalog, probe_lines, probe, probed >>
    /\ UNCHANGED << runVars, decVars >>

NextProbe ==
    \/ ProbeSkip
    \/ ProbeMatch
    \/ ProbeNotLogs
    \/ ParseEvent

SpecProbe == InitProbe /\ [][NextProbe]_vars

-----------------------------------------------------------------------------
(* Properties.                                                             *)

(* parse_file has returned its output to the driver. *)
OutputReady == pc = "tx_file"

Partial == ~platform.full_timestamp

OutputAt(n) == {k \in 1 .. Len(output.lines) : output.lines[k].line_num = n}

(* What the line at position i (from 0) of the file being parsed yields. *)
LineOutcome(i) == parse_line(cur.lines[i + 1], i, file, Date(file.timestamp))

(* The lines that carry a timestamp were logged in non-decreasing real     *)
(* time, none before the file's timestamp.                                 *)
LoggedInOrder ==
    /\ \A i \in 1 .. Len(cur.lines) :
           cur.lines[i].ts # NoTs => cur.lines[i].ts >= file.timestamp
    /\ \A i, j \in 1 .. Len(cur.lines) :
           (i < j /\ cur.lines[i].ts # NoTs /\ cur.lines[j].ts # NoTs)
               => cur.lines[i].ts <= cur.lines[j].ts

(* C1: a file that fails to parse does not abort the run: when the run    *)
(* ends without a store error, every discovered file has been visited by   *)
(* the parser, the files after a failing one included.                     *)
C1_FailedFileDoesNotAbort == pc = "done" => index = n_files

(* C2: the line_nums emitted for a file are exactly 1..=N, N the number of *)
(* input lines of the file.                                                *)
C2_LineNumsOneToN ==
    OutputReady =>
        {output.lines[k].line_num : k \in 1 .. Len(output.lines)}
            = 1 .. Len(cur.lines)

(* C3: on a partial-timestamp platform, a file logged in non-decreasing    *)
(* real time from its base timestamp on has non-decreasing emitted         *)
(* timestamps in line_num order, however many midnights it crosses.        *)
C3_TimestampsMonotonic ==
    (OutputReady /\ Partial /\ LoggedInOrder) =>
        \A a, b \in 1 .. Len(output.lines) :
            output.lines[a].line_num < output.lines[b].line_num
                => output.lines[a].timestamp <= output.lines[b].timestamp

(* C4: on a partial-timestamp platform, when the lines were logged in      *)
(* non-decreasing real time within [F, F + one day), F the file's base     *)
(* timestamp, every emitted timestamp is the instant the line was logged.  *)
WithinOneDay ==
    \A i \in 1 .. Len(cur.lines) : cur.lines[i].ts < file.timestamp + DayLen

C4_OneMidnightExact ==
    (OutputReady /\ Partial /\ LoggedInOrder /\ WithinOneDay) =>
        \A k \in 1 .. Len(output.lines) :
            output.lines[k].timestamp
                = cur.lines[output.lines[k].line_num + 1].ts

C4_Witness ==
    /\ OutputReady /\ Partial /\ LoggedInOrder /\ WithinOneDay
    /\ \E a, b \in 1 .. Len(output.lines) :
           /\ output.lines[a].line_num < output.lines[b].line_num
           /\ Date(output.lines[a].timestamp) = Date(file.timestamp)
           /\ Date(output.lines[b].timestamp) = Date(file.timestamp) + 1

(* C5: the lines of a file's output are in strictly increasing line_num    *)
(* order.                                                                  *)
C5_OutputInLineOrder ==
    OutputReady =>
        \A a, b \in 1 .. Len(output.lines) :
            a < b => output.lines[a].line_num < output.lines[b].line_num

(* C6: whatever the order in which the line tasks finish, the result of    *)
(* the task of line i is collected at position i, every emitted line       *)
(* carries the position of its source line, and the output is the one the  *)
(* tasks yield when taken in line order.                                   *)
InLineOrder == [k \in 1 .. Len(cur.lines) |-> line_task(file, cur, k - 1)]

C6_ScheduleIndependent ==
    /\ pc = "lines" =>
           \A i \in completed : results[i + 1] = line_task(file, cur, i)
    /\ OutputReady =>
           /\ output.lines = ok_results(InLineOrder, file)
           /\ summary = file_summary(InLineOrder, file)
           /\ \A k \in 1 .. Len(output.lines) :
                  LET l == output.lines[k]
                  IN  /\ l.line_num \in 0 .. Len(cur.lines) - 1
                      /\ LineOutcome(l.line_num).ok
                      /\ l.event_type = LineOutcome(l.line_num).line.event_type
                      /\ l.level = LineOutcome(l.line_num).line.level

(* The second line's task has finished before the first line's. *)
C6_Witness ==
    /\ pc = "lines"
    /\ completed = {1}
    /\ results[2].tag = "Ok"
    /\ LineOutcome(0).ok

(* C7: a per-line error never makes parse_file fail, whichever line it is  *)
(* on: the output holds every line of the file that parses.                *)
PerLineErrors == {"NoDomain", "NoTimestamp", "NoLevel", "NoSuchLevel",
                  "UnknownEvent", "IgnoredEvent"}

C7_LineErrorKeepsFile ==
    /\ file_err \notin PerLineErrors
    /\ OutputReady =>
           \A i \in 0 .. Len(cur.lines) - 1 :
               LineOutcome(i).ok => OutputAt(i) # {}

(* C8: every input line of a parsed file yields exactly one emitted line,  *)
(* or counts once as expected noise (NoDomain, IgnoredEvent), or counts    *)
(* once as a non-expected failure; the three counts add up to the number   *)
(* of input lines and the count the run returns is the number of           *)
(* non-expected failures.                                                  *)
NoiseLines ==
    {i \in 0 .. Len(cur.lines) - 1 :
         ~LineOutcome(i).ok /\ LineOutcome(i).err \in {"NoDomain", "IgnoredEvent"}}

FailedLines ==
    {i \in 0 .. Len(cur.lines) - 1 :
         ~LineOutcome(i).ok /\ LineOutcome(i).err \notin {"NoDomain", "IgnoredEvent"}}

IgnoredKeys == {Events[k].key : k \in {j \in 1 .. Len(Events) : Events[j].ignore}}

MatchesIgnored(i) == cur.lines[i + 1].ev \cap IgnoredKeys # {}

ReachesEvents(i) ==
    LET l == cur.lines[i + 1]
    IN  /\ l.dom
        /\ l.ts # NoTs
        /\ (file.level # "None" \/ l.lvl \notin {"NoLevel", "NoSuchLevel"})

FirstMatchIgnored(i) ==
    \E k \in 1 .. Len(Events) :
        /\ Events[k].ignore
        /\ Events[k].key \in cur.lines[i + 1].ev
        /\ \A j \in 1 .. k - 1 : Events[j].key \notin cur.lines[i + 1].ev

IgnoredLines ==
    {i \in 0 .. Len(cur.lines) - 1 : ReachesEvents(i) /\ FirstMatchIgnored(i)}

C10_EventTypesFirst ==
    /\ \A k \in 1 .. Len(store.lines) :
           store.lines[k].event_type \in store.event_types
    /\ \A k \in 1 .. Len(tx.lines) :
           tx.lines[k].event_type \in store.event_types

(* C11: a file is stored atomically: the store changes only when a file's  *)
(* transaction commits, and the commit adds the File row together with     *)
(* every emitted Line of the file; no transaction is open while a file is  *)
(* parsed, and every stored line has its File row.                         *)
StoredWhole ==
    /\ pc \in {"next", "lines", "done", "failed"} => ~tx.open
    /\ \A k \in 1 .. Len(store.lines) :
           \E r \in store.files : r.id = store.lines[k].file_id

CommitsWhole ==
    store' # store =>
        /\ pc = "tx_commit"
        /\ store'.files = store.files \cup {FileRow(output.file)}
        /\ store'.lines = store.lines \o LineRows(output.lines)

C11_FileStoredAtomically == [](StoredWhole) /\ [][CommitsWhole]_vars

(* The second file is being parsed, the first is stored with its lines. *)
C11_Witness ==
    /\ pc = "lines"
    /\ index = 2
    /\ Cardinality(store.files) = 1
    /\ Len(store.lines) = 2

(* C12: a failure while decoding the entries of a binary log ends the      *)
(* decoding with an InvalidBinaryLogs error: reading an entry never        *)
(* returns another error, and the decoding never ends without an error     *)
(* before the end of the stream.                                           *)
ReadingEntries == decoder.pointer_size # 0

C12_DecodeFailureIsInvalidBinaryLogs ==
    /\ (dpc = "failed" /\ ReadingEntries /\ decode_err # Panic) =>
           decode_err.kind = "InvalidBinaryLogs"
    /\ dpc = "decoded" => decoder.pos = Len(stream)

(* C13: on a binary log that follows the format, decoding does not fail    *)
(* and returns one line per entry.                                         *)
C13_TotalOnWellFormed ==
    \A w \in WellFormedLogs :
        w.bytes = stream =>
            /\ dpc # "failed"
            /\ dpc = "decoded" => Len(decoded) = w.entries

(* C14: a file that does not start with the magic number, a file shorter   *)
(* than four bytes included, is read as the lines of its text; a file that *)
(* starts with the magic number followed by a format version other than 1  *)
(* fails with InvalidBinaryLogs at offset 0.                               *)
HasMagic == Len(stream) >= 4 /\ SubSeq(stream, 1, 4) = MAGIC_NUMBER

C14_HeaderClassification ==
    dpc # "open" =>
        /\ (~HasMagic /\ Utf8(stream)) =>
               /\ dpc = "plain"
               /\ decode_err = NoError
               /\ decoded = TextLinesFrom(stream, << >>)
        /\ (HasMagic /\ Len(stream) >= 5 /\ stream[5] # FORMAT_VERSION) =>
               /\ dpc = "failed"
               /\ decode_err = InvalidBinaryLogs(0)

(* C15: every emitted line whose event declares captures carries as        *)
(* event_data a JSON object whose fields are exactly the declared capture  *)
(* names, written in the order the specification declares the captures.    *)
DeclaredEvent(key) ==
    DeclaredEvents[CHOOSE i \in 1 .. Len(DeclaredEvents) :
                       DeclaredEvents[i].key = key]

Range(seq) == {seq[i] : i \in 1 .. Len(seq)}

C15_DataFieldsInDeclaredOrder ==
    \A k \in 1 .. Len(output.lines) :
        LET e == DeclaredEvent(output.lines[k].event_type)
        IN  e.captures # NoCaptures =>
                /\ Range(output.lines[k].event_data) =
                       Range(DeclaredCaptureNames(e))
                /\ output.lines[k].event_data = DeclaredCaptureNames(e)

(* C16: a format probe ends in exactly one of four outcomes: success,     *)
(* NotLogs when no line matches a version regex of any PatternSet,         *)
(* UnsupportedVersion when the version found lies outside all ranges,      *)
(* UnsupportedPlatform when no platform of the version's PatternSet        *)
(* matches the line.                                                       *)
NoVersionLine ==
    \A n \in 1 .. Len(probe_lines) : \A i \in 1 .. Len(catalog) :
        MatchingPlatforms(catalog[i].set, probe_lines[n]) = {}

C16_ProbeOutcomes ==
    probe.pc = "done" =>
        /\ probed.kind \in {"Ok", "NotLogs", "UnsupportedVersion",
                            "UnsupportedPlatform"}
        /\ probed = NotLogs <=> NoVersionLine

(* C17: the catalog's version ranges do not overlap and cover one interval *)
(* of the version order; the lookup of a version inside the interval finds *)
(* exactly one PatternSet, the lookup of a version outside it fails with   *)
(* UnsupportedVersion.                                                     *)
RangesOf(v) == {i \in 1 .. Len(catalog) : RangeContains(catalog[i], v)}

Covered(v) == catalog[1].from <= v /\ v < catalog[Len(catalog)].to

RangesPartition ==
    \A v \in Versions :
        IF Covered(v) THEN Cardinality(RangesOf(v)) = 1 ELSE RangesOf(v) = {}

(* The version the probe looked up, once it has parsed one. *)
LookedUp ==
    /\ probe.pc = "done"
    /\ probed.kind \in {"Ok", "UnsupportedVersion", "UnsupportedPlatform"}

FoundVersion == Version_parse(version_str(probe_lines[probe.ln].ver)).v

LevelCode(level) ==
    CASE level = "Error" -> 0
      [] level = "Warn" -> 1
      [] level = "Info" -> 2
      [] level = "Verbose" -> 3
      [] level = "Debug" -> 4
      [] OTHER -> SqlNull

C18_LevelEncoding ==
    pc = "tx_commit" =>
        /\ \A r \in tx.files : r.level = LevelCode(output.file.level)
        /\ \A k \in 1 .. Len(tx.lines) :
               tx.lines[k].level = LevelCode(output.lines[k].level)

(* C19: on a platform with partial timestamps the emitted timestamps are   *)
(* those of the sequential rule run over every parsed line in line order:  *)
(* a line gets the days accumulated so far, and a line still before the    *)
(* file's timestamp adds one more day for itself and for every later line. *)
RECURSIVE SequentialRule(_, _)
SequentialRule(i, additional_days) ==
    IF i >= Len(cur.lines) THEN << >>
    ELSE IF ~LineOutcome(i).ok
    THEN << NoTs >> \o SequentialRule(i + 1, additional_days)
    ELSE LET t1 == LineOutcome(i).line.timestamp + additional_days
             before == t1 < file.timestamp
         IN  << IF before THEN t1 + DayLen ELSE t1 >>
                 \o SequentialRule(i + 1, IF before
                                          THEN additional_days + DayLen
                                          ELSE additional_days)

C19_RolloverIsSequentialRule ==
    (OutputReady /\ Partial) =>
        \A k \in 1 .. Len(output.lines) :
            output.lines[k].timestamp =
                SequentialRule(0, 0)[output.lines[k].line_num + 1]

(* C20: events are probed in the order the specification declares them:    *)
(* the outcome of a line that matches several events is that of the event  *)
(* declared first, the event type emitted or IgnoredEvent.                 *)
FirstDeclared(matches) ==
    DeclaredEvents[CHOOSE k \in 1 .. Len(DeclaredEvents) :
                       /\ DeclaredEvents[k].key \in matches
                       /\ \A j \in 1 .. k - 1 :
                              DeclaredEvents[j].key \notin matches]

C20_DeclaredOrderDecides ==
    pc = "lines" =>
        \A i \in completed :
            (ReachesEvents(i) /\ cur.lines[i + 1].ev # {}) =>
                IF FirstDeclared(cur.lines[i + 1].ev).ignore
                THEN results[i + 1] = [tag |-> "Err", err |-> "IgnoredEvent"]
                ELSE /\ results[i + 1].tag \in {"Ok", "Rollover"}
                     /\ results[i + 1].line.event_type =
                            FirstDeclared(cur.lines[i + 1].ev).key

(* C21: when the regex of the event that decides a line matches but a      *)
(* required capture is absent or does not parse, the line alone fails: it  *)
(* is reported as a per-line failure and counted, and the file's other     *)
(* lines are still parsed and returned.                                    *)
RequiredTypes == {"Int", "Float", "String", "Bool", "Char"}

LacksRequired(i) ==
    /\ ReachesEvents(i)
    /\ \E k \in 1 .. Len(Events) :
           /\ Events[k].key \in cur.lines[i + 1].ev
           /\ ~Events[k].ignore
           /\ \A j \in 1 .. k - 1 : Events[j].key \notin cur.lines[i + 1].ev
           /\ \E c \in 1 .. Len(Events[k].captures) :
                  /\ Events[k].captures[c].type \in RequiredTypes
                  /\ Events[k].captures[c].key \in cur.lines[i + 1].bad

C21_RequiredCaptureFailsLineOnly ==
    /\ pc = "panicked" =>
           \A i \in 0 .. Len(cur.lines) - 1 : ~LacksRequired(i)
    /\ pc = "lines" =>
           \A i \in completed : LacksRequired(i) => results[i + 1].tag = "Err"
    /\ OutputReady =>
           \A i \in 0 .. Len(cur.lines) - 1 :
               LacksRequired(i) => (OutputAt(i) = {} /\ i \in FailedLines)

(* C22: the signed level byte of an entry selects a level name: 1, 2, 3,   *)
(* 4, 5 select Debug, Verbose, Info, Warning, Error; every other value     *)
(* gives the empty level; no value of the level byte makes decoding fail.  *)
ClaimedLevelName(level) ==
    IF level \in 1 .. 5
    THEN << "Debug", "Verbose", "Info", "Warning", "Error" >>[level]
    ELSE ""

C22_LevelByteMapping ==
    \A e \in EntryInputs : \A ps \in {4, 8} :
        stream = Header(FORMAT_VERSION, ps, << 5 >>)
                     \o EncodeEntries(<< e >>, << >>, {}, ps) =>
            /\ dpc # "failed"
            /\ decoded # << >> =>
                   decoded[1].level = ClaimedLevelName(AsI8(e.level))

(* C23: reading a tokenized string reads a varint id; an id below the      *)
(* number of tokens returns the stored token and reads nothing more; an id *)
(* equal to it reads a null-terminated string, appends it as the next      *)
(* token and returns it; a greater id is a protocol error.  Domains,       *)
(* format strings and copied-through string arguments share the list.      *)
TokenReadAsClaimed(s, pos, tokens) ==
    LET v == varint_read(s, pos)
        r == read_tokenized_string(s, pos, tokens)
    IN  v.ok =>
            /\ Value(v.val) < Len(tokens) =>
                   /\ r.ok
                   /\ r.val = tokens[Value(v.val) + 1]
                   /\ r.pos = v.pos
                   /\ r.tokens = tokens
            /\ Value(v.val) = Len(tokens) =>
                   \A z \in v.pos + 1 .. Len(s) :
                       (s[z] = 0 /\ \A y \in v.pos + 1 .. z - 1 : s[y] # 0) =>
                           /\ r.ok
                           /\ r.val = SubSeq(s, v.pos + 1, z - 1)
                           /\ r.pos = z
                           /\ r.tokens = Append(tokens, r.val)
            /\ Value(v.val) > Len(tokens) =>
                   /\ ~r.ok
                   /\ r.err.kind = "InvalidBinaryLogs"

(* An entry whose message is a string argument copied through as a token. *)
TokenEntry ==
    [BaseEntry EXCEPT !.format = << 37, 45, 115 >>,
                      !.args = << Token(<< 116 >>) >>]

(* The log of two such entries: the second holds token ids only. *)
TwoTokenEntries(ps) ==
    Header(FORMAT_VERSION, ps, << 5 >>)
        \o EncodeEntries(<< TokenEntry, TokenEntry >>, << >>, {}, ps)

C23_TokenizedString ==
    /\ dpc \in {"entries", "decoded", "failed"} =>
           \A pos \in 0 .. Len(stream) :
               TokenReadAsClaimed(stream, pos, decoder.tokens)
    /\ \A ps \in {4, 8} :
           (stream = TwoTokenEntries(ps) /\ Len(decoded) = 2) =>
               /\ decoder.tokens = << << 68 >>, << 37, 45, 115 >>, << 116 >> >>
               /\ decoded[2].domain = << 68 >>
               /\ decoded[2].message = << 116 >>

C23_Witness ==
    /\ stream = TwoTokenEntries(8)
    /\ Len(decoded) = 2
    /\ Len(decoder.tokens) = 3

(* C24: within one binary file the dictionaries are stable: a bound token  *)
(* id or object id always reads back as the string it was bound to, the    *)
(* token list only grows by appending, and an object id is never rebound.  *)
IsPrefix(old, new) ==
    /\ Len(old) <= Len(new)
    /\ SubSeq(new, 1, Len(old)) = old

OneNamePerId(objects) ==
    \A o \in objects : \A p \in objects : o.id = p.id => o.name = p.name

(* A read at any position of the stream keeps what the dictionaries hold. *)
ReadsKeepDictionaries(pos) ==
    LET t == read_tokenized_string(stream, pos, decoder.tokens)
        o == read_object(stream, pos, decoder.objects)
        v == varint_read(stream, pos)
    IN  /\ t.ok => IsPrefix(decoder.tokens, t.tokens)
        /\ o.ok => /\ decoder.objects \subseteq o.objects
                   /\ OneNamePerId(o.objects)
        /\ (v.ok /\ \E b \in decoder.objects : b.id = v.val) =>
               /\ o.ok
               /\ o.objects = decoder.objects
               /\ [id |-> v.val, name |-> o.val.name] \in decoder.objects

DictionariesGrow ==
    dpc = "entries" =>
        /\ IsPrefix(decoder.tokens, decoder'.tokens)
        /\ decoder.objects \subseteq decoder'.objects

C24_DictionariesStable ==
    /\ [](dpc = "entries" =>
              /\ OneNamePerId(decoder.objects)
              /\ \A pos \in 0 .. Len(stream) : ReadsKeepDictionaries(pos))
    /\ [][DictionariesGrow]_vars

(* Two entries of the same object: the second holds the object's id only. *)
C24_Witness ==
    /\ Cardinality(decoder.objects) = 1
    /\ Len(decoder.tokens) = 2
    /\ Len(decoded) = 2
    /\ decoded[1].object = [some |-> TRUE, name |-> << 111 >>]
    /\ decoded[2].object = decoded[1].object

(* C25: varint::read consumes bytes up to and including the first byte     *)
(* with a clear top bit, at most ten, and returns exactly the sum of       *)
(* (b_i & 0x7F) * 2^(7*i) over the consumed bytes, no bit dropped; ten     *)
(* bytes with the top bit set are InvalidVarint.                           *)
EncodedBits(s, pos, n) ==
    {7 * i + j : << i, j >> \in
         {ij \in (0 .. n - 1) \X (0 .. 6) :
              (s[pos + 1 + ij[1]] \div Pow2(ij[2])) % 2 = 1}}

(* The bytes from pos on that a varint of n bytes consists of. *)
IsVarintOf(s, pos, n) ==
    /\ pos + n <= Len(s)
    /\ s[pos + n] < 128
    /\ \A i \in 1 .. n - 1 : s[pos + i] >= 128

C25_VarintExact ==
    \A pos \in 0 .. Len(stream) :
        /\ \A n \in 1 .. MAX_LEN :
               IsVarintOf(stream, pos, n) =>
                   /\ varint_read(stream, pos).ok
                   /\ varint_read(stream, pos).pos = pos + n
                   /\ varint_read(stream, pos).val = EncodedBits(stream, pos, n)
        /\ (pos + MAX_LEN <= Len(stream)
               /\ \A i \in 1 .. MAX_LEN : stream[pos + i] >= 128) =>
               /\ ~varint_read(stream, pos).ok
               /\ varint_read(stream, pos).err = InvalidVarint

(* C26: a %p conversion renders the pointer as 0x followed by exactly 16   *)
(* hexadecimal digits when the pointer size is 8 and by exactly 8 when it  *)
(* is 4, for every pointer value, small ones included.                     *)
RECURSIVE BigEndian(_)
BigEndian(bytes) ==
    IF bytes = << >> THEN << >>
    ELSE BigEndian(Tail(bytes)) \o << Head(bytes) >>

ClaimedPointerText(bytes) == << 48, 120 >> \o HexEachByte(BigEndian(bytes))

PointerEntries == {e \in EntryInputs : e.format = << Percent, PointerSpec >>}

C26_PointerRendering ==
    \A e \in PointerEntries : \A ps \in {4, 8} :
        (/\ stream = Header(FORMAT_VERSION, ps, << 5 >>)
                         \o EncodeEntries(<< e >>, << >>, {}, ps)
         /\ dpc = "decoded") =>
            /\ Len(decoded) = 1
            /\ Len(decoded[1].message) = 2 + 2 * ps
            /\ decoded[1].message
                   = ClaimedPointerText(SubSeq(e.args[1].bytes, 1, ps))

(* C27: in the rollover loop additional_days never exceeds one day: every  *)
(* timestamp emitted for a partial-timestamp file is on the file's base    *)
(* date or on the day after, however many midnights the log spans.         *)
DaysAdded(k) ==
    output.lines[k].timestamp
        - AndTime(Date(file.timestamp),
                  TimeOfDay(cur.lines[output.lines[k].line_num + 1].ts))

C27_AtMostOneDayAdded ==
    (OutputReady /\ Partial) =>
        \A k \in 1 .. Len(output.lines) :
            /\ DaysAdded(k) \in {0, DayLen}
            /\ Date(output.lines[k].timestamp)
                   \in {Date(file.timestamp), Date(file.timestamp) + 1}

(* Two candidates, the second logged two midnights after the file's day:   *)
(* the first adds the day, the second gets it and adds none.               *)
C27_Witness ==
    /\ OutputReady /\ Partial
    /\ Len(output.lines) = 2
    /\ \A k \in 1 .. 2 : DaysAdded(k) = DayLen
    /\ \E i \in 1 .. Len(cur.lines) :
           Date(cur.lines[i].ts) = Date(file.timestamp) + 2

(* C28: for every catalog the build script accepts and every patterns and  *)
(* version the probe returns, parse_event runs the EventBuilder of the     *)
(* PatternSet the patterns came from: it never returns UnsupportedVersion  *)
(* and never looks up an event key the patterns lack.                      *)
C28_DispatchAgreesWithLookup ==
    dispatched.kind # "none" =>
        /\ dispatched.kind = "EventBuilder"
        /\ dispatched.set = probed.set

(* C29: across one run no two emitted Lines share (file_id, line_num) and  *)
(* no two emitted Files share an id: file ids are the indices of the file  *)
(* list and line_nums are distinct within a file.                          *)
DistinctKeys(lines) ==
    \A a, b \in 1 .. Len(lines) :
        (lines[a].file_id = lines[b].file_id
            /\ lines[a].line_num = lines[b].line_num) => a = b

C29_PrimaryKeysDistinct ==
    /\ DistinctKeys(store.lines \o tx.lines \o
                        (IF pc \in {"tx_file", "tx_lines"}
                         THEN output.lines ELSE << >>))
    /\ \A f, g \in store.files \cup tx.files : f.id = g.id => f = g
    /\ OutputReady =>
           /\ output.file.id = index - 1
           /\ \A r \in store.files : r.id # output.file.id
           /\ \A k \in 1 .. Len(output.lines) :
                  /\ output.lines[k].file_id = output.file.id
                  /\ output.lines[k].line_num \in 0 .. Len(cur.lines) - 1

C29_Witness ==
    /\ pc = "done"
    /\ Cardinality(store.files) = 2
    /\ Len(store.lines) = 4

(* C30: for every byte sequence decode_lines returns the decoded lines or  *)
(* an error value and never panics: a format string that ends inside a %   *)
(* conversion, a number too large for its type and a truncated stream are  *)
(* all reported as errors.                                                 *)
C30_DecodeNeverPanics ==
    /\ dpc = "failed" => decode_err.kind \in {"Io", "InvalidVarint",
                                               "InvalidBinaryLogs"}
    /\ decode_err # Panic

====
